---- MODULE Spec2Model ----
(***************************************************************************)
(* The two notebooks of ch3 ("Training with pandas dataframes" and "Run an *)
(* experiment on Azure Machine Learning Service") as one state machine.    *)
(* A run executes the statements of one notebook top to bottom.  Calls     *)
(* into pandas, CNTK, scikit-learn and the Azure ML SDK are recorded in    *)
(* `calls` in the order the notebook issues them.                          *)
(***************************************************************************)
EXTENDS Integers, Sequences, FiniteSets

VARIABLES
    nb,                 \* the notebook being run: "train" or "azure"
    pc,                 \* the statement about to run, "done" or "failed"
    iris_csv,           \* rows of the file iris.csv
    df_source,          \* the table read by pd.read_csv
    label_mapping,      \* the dict label_mapping (empty until defined)
    X, y,               \* feature array and label array / list
    X_train, X_test, y_train, y_test,
    cntk_seed,          \* CNTK's fixed random seed, 0 when none was set
    numpy_rng,          \* state of numpy's global generator
    numpy_random_seed,  \* what the attribute numpy.random.seed is bound to
    z,                  \* the model function and its parameters
    i,                  \* loop counter of `for _ in range(10)` / epoch of loss.train
    calls,              \* library calls issued so far, in order
    train_summary,      \* what loss.train returned
    local_files, uploaded, stored_model, service,
    oh_index, oh_length, oh_result   \* a direct call one_hot(index, length)

vars == << nb, pc, iris_csv, df_source, label_mapping, X, y, X_train, X_test,
           y_train, y_test, cntk_seed, numpy_rng, numpy_random_seed, z, i,
           calls, train_summary, local_files, uploaded, stored_model, service,
           oh_index, oh_length, oh_result >>

\* ------------------------------------------------------------------ bounds
MaxRows == 3
MaxLen == 5

\* ------------------------------------------------------- program constants
NumClasses == 3
NumSteps == 10
MaxEpochs == 5
MinibatchSize == 16
Seed == 1337

\* ------------------------------------------------------------------ inputs
KnownSpecies == {"Iris-setosa", "Iris-versicolor", "Iris-virginica"}
Species == KnownSpecies \cup {"Iris-unknown"}
\* measurements in tenths of a centimetre, as two rows of the data set
FeatureRows == { <<51, 35, 14, 2>>, <<70, 32, 47, 14>> }
Row == [features : FeatureRows, species : Species]
Tables == UNION { [1..n -> Row] : n \in 1..MaxRows }

\* ----------------------------------------------------------------- helpers
Array(dtype, rows) == [dtype |-> dtype, rows |-> rows]
NoArray == Array("none", <<>>)
astype(a, dtype) == Array(dtype, a.rows)

Call(op, name, ok, xd, yd) == [op |-> op, name |-> name, ok |-> ok, xd |-> xd, yd |-> yd]

NoModel == [name |-> "", path |-> "", trained |-> 0]

\* a slip in the literal: two species share an index
LabelMappingTypo ==
    [s \in KnownSpecies |->
        CASE s = "Iris-setosa" -> 0
          [] s = "Iris-versicolor" -> 1
          [] s = "Iris-virginica" -> 1]

\* label_mapping = { 'Iris-setosa': 0, 'Iris-versicolor': 1, 'Iris-virginica': 2 }
LabelMappingLiteral ==
    [s \in KnownSpecies |->
        CASE s = "Iris-setosa" -> 0
          [] s = "Iris-versicolor" -> 1
          [] s = "Iris-virginica" -> 2]

EmptyDict == [s \in {} |-> 0]

\* one_hot setting position index + 1 (a 1-based index)
one_hot_one_based(index, length) ==
    IF index + 1 < -length \/ index + 1 >= length
    THEN [raised |-> TRUE, dtype |-> "float64", result |-> [k \in 0..(length - 1) |-> 0]]
    ELSE LET pos == IF index + 1 < 0 THEN index + 1 + length ELSE index + 1
         IN  [raised |-> FALSE, dtype |-> "float64",
              result |-> [k \in 0..(length - 1) |-> IF k = pos THEN 1 ELSE 0]]

\* def one_hot(index, length): result = np.zeros(length); result[index] = 1
\* numpy accepts index in -length .. length-1 and raises IndexError otherwise.
zeros(length) == [k \in 0..(length - 1) |-> 0]

one_hot(index, length) ==
    IF index < -length \/ index >= length
    THEN [raised |-> TRUE, dtype |-> "float64", result |-> zeros(length)]
    ELSE LET pos == IF index < 0 THEN index + length ELSE index
         IN  [raised |-> FALSE, dtype |-> "float64",
              result |-> [zeros(length) EXCEPT ![pos] = 1]]

\* the encoding with the class index taken one too low
EncodeLabelsIndexLow(mapping, labels) ==
    [k \in 1..Len(labels) |-> one_hot(mapping[labels[k]] - 1, NumClasses).result]

\* the encoding over y[1:], losing the first row
EncodeLabelsSkipFirst(mapping, labels) ==
    [k \in 1..(Len(labels) - 1) |-> one_hot(mapping[labels[k + 1]], NumClasses).result]

\* [one_hot(label_mapping[v], 3) for v in y]
EncodeLabels(mapping, labels) ==
    [k \in 1..Len(labels) |-> one_hot(mapping[labels[k]], NumClasses).result]

\* a call wrapped in try/except that carries on after an error
AfterCallSwallowed(ok, next) == next

\* for _ in range(10) running one round too many
LoopNextOffByOne(k) == IF k <= NumSteps THEN "train_minibatch" ELSE "test_minibatch"

\* for _ in range(10): the loop body runs while the counter is below 10
LoopNext(k) == IF k < NumSteps THEN "train_minibatch" ELSE "test_minibatch"

\* with no try/except around a call, an exception ends the run
AfterCall(ok, next) == IF ok THEN next ELSE "failed"

\* rows of `rows` at the positions in idxs, in increasing position
RECURSIVE Select(_, _, _)
Select(rows, idxs, k) ==
    IF k > Len(rows) THEN <<>>
    ELSE (IF k \in idxs THEN <<rows[k]>> ELSE <<>>) \o Select(rows, idxs, k + 1)

\* content of the file stored under `key` in a set of [key, trained] records, -1 if none
Content(files, key) ==
    IF \E f \in files : f.key = key
    THEN (CHOOSE f \in files : f.key = key).trained
    ELSE -1

\* writing a file replaces what was stored under the same key
Store(files, key, trained) ==
    { f \in files : f.key # key } \cup { [key |-> key, trained |-> trained] }

\* -------------------------------------------------------------------- Init
\* every variable no statement has assigned yet
Blank ==
    /\ df_source = <<>>
    /\ label_mapping = EmptyDict
    /\ X = NoArray /\ y = NoArray
    /\ X_train = NoArray /\ X_test = NoArray
    /\ y_train = NoArray /\ y_test = NoArray
    /\ cntk_seed = 0
    /\ numpy_rng = [seeded |-> FALSE, seed |-> 0]
    /\ numpy_random_seed = [kind |-> "function", value |-> 0]
    /\ z = [built |-> FALSE, seed |-> 0, trained |-> 0]
    /\ i = 0
    /\ calls = <<>>
    /\ train_summary = [minibatch_size |-> 0, epochs |-> 0]
    /\ local_files = {} /\ uploaded = {}
    /\ stored_model = NoModel
    /\ service = [name |-> "", models |-> <<>>]
    /\ oh_result = [raised |-> FALSE, dtype |-> "none", result |-> zeros(0)]

Init ==
    /\ nb \in {"train", "azure"}
    /\ pc = IF nb = "train" THEN "seed" ELSE "model"
    /\ iris_csv \in Tables
    /\ oh_index = 0 /\ oh_length = 0
    /\ Blank

data == << iris_csv, df_source, label_mapping, X, y >>
splits == << X_train, X_test, y_train, y_test >>
seeds == << cntk_seed, numpy_rng, numpy_random_seed >>
remote == << local_files, uploaded, stored_model, service >>
direct == << oh_index, oh_length, oh_result >>

\* ------------------------------------------------- statements of both notebooks
\* cntk.cntk_py.set_fixed_random_seed(1337); numpy.random.seed = 1337
\* The second statement rebinds the attribute; it does not call numpy.random.seed.
SeedCell ==
    /\ nb = "train" /\ pc = "seed"
    /\ cntk_seed' = Seed
    /\ numpy_random_seed' = [kind |-> "int", value |-> Seed]
    /\ numpy_rng' = numpy_rng
    /\ pc' = "model"
    /\ UNCHANGED << nb, data, splits, z, i, calls, train_summary, remote, direct >>

\* model = Sequential([...]); features = input_variable(4); z = model(features)
BuildModel ==
    /\ pc = "model"
    /\ z' = [built |-> TRUE, seed |-> cntk_seed, trained |-> 0]
    /\ pc' = IF nb = "train" THEN "def_one_hot" ELSE "read_csv"
    /\ UNCHANGED << nb, data, splits, seeds, i, calls, train_summary, remote, direct >>

\* the cell that defines one_hot in the training notebook
DefOneHot ==
    /\ nb = "train" /\ pc = "def_one_hot"
    /\ pc' = "read_csv"
    /\ UNCHANGED << nb, data, splits, seeds, z, i, calls, train_summary, remote, direct >>

\* df_source = pd.read_csv('iris.csv', names=[...], index_col=False)
ReadCsv ==
    /\ pc = "read_csv"
    /\ df_source' = iris_csv
    /\ calls' = Append(calls, Call("read_csv", "iris.csv", TRUE, "none", "none"))
    /\ pc' = IF nb = "train" THEN "label_mapping" ELSE "extract"
    /\ UNCHANGED << nb, iris_csv, label_mapping, X, y, splits, seeds, z, i,
                    train_summary, remote, direct >>

\* label_mapping = { ... }
DefineLabelMapping ==
    /\ pc = "label_mapping"
    /\ label_mapping' = LabelMappingLiteral
    /\ pc' = IF nb = "train" THEN "extract" ELSE "encode"
    /\ UNCHANGED << nb, iris_csv, df_source, X, y, splits, seeds, z, i, calls,
                    train_summary, remote, direct >>

\* X = df_source.iloc[:, :4].values ; y = df_source['species'].values
Extract ==
    /\ pc = "extract"
    /\ X' = Array("float64", [k \in 1..Len(df_source) |-> df_source[k].features])
    /\ y' = Array("object", [k \in 1..Len(df_source) |-> df_source[k].species])
    /\ pc' = IF nb = "train" THEN "encode" ELSE "label_mapping"
    /\ UNCHANGED << nb, iris_csv, df_source, label_mapping, splits, seeds, z, i,
                    calls, train_summary, remote, direct >>

\* y = [one_hot(label_mapping[v], 3) for v in y]; label_mapping[v] raises KeyError
\* for a v that is no key, and y keeps its old value then
Encode ==
    /\ pc = "encode"
    /\ LET ok == \A k \in 1..Len(y.rows) : y.rows[k] \in DOMAIN label_mapping
       IN  /\ y' = IF ok THEN Array("float64", EncodeLabels(label_mapping, y.rows)) ELSE y
           /\ calls' = Append(calls, Call("encode", "y", ok, "none", "none"))
           /\ pc' = AfterCall(ok, IF nb = "train" THEN "astype" ELSE "split")
    /\ UNCHANGED << nb, iris_csv, df_source, label_mapping, X, splits, seeds, z, i,
                    train_summary, remote, direct >>

\* X = X.astype(np.float32) ; y = y.astype(np.float32)   (training notebook only)
AsType ==
    /\ nb = "train" /\ pc = "astype"
    /\ X' = astype(X, "float32")
    /\ y' = astype(y, "float32")
    /\ pc' = "loss"
    /\ UNCHANGED << nb, iris_csv, df_source, label_mapping, splits, seeds, z, i,
                    calls, train_summary, remote, direct >>

\* X_train, X_test, y_train, y_test = train_test_split(X, y, test_size=0.2, stratify=y)
\* Which rows go where is decided inside scikit-learn; the model leaves it open.
Split ==
    /\ nb = "azure" /\ pc = "split"
    /\ \E test \in SUBSET (1..Len(X.rows)) :
          LET train == (1..Len(X.rows)) \ test
          IN  /\ X_train' = Array(X.dtype, Select(X.rows, train, 1))
              /\ X_test' = Array(X.dtype, Select(X.rows, test, 1))
              /\ y_train' = Array(y.dtype, Select(y.rows, train, 1))
              /\ y_test' = Array(y.dtype, Select(y.rows, test, 1))
    /\ calls' = Append(calls, Call("train_test_split", "stratify=y", TRUE, X.dtype, y.dtype))
    /\ pc' = "loss"
    /\ UNCHANGED << nb, data, seeds, z, i, train_summary, remote, direct >>

\* labels = input_variable(3); loss = cross_entropy_with_softmax(z, labels);
\* learner = sgd(...) ; (Azure notebook: error_rate and Trainer as well)
DefineLoss ==
    /\ pc = "loss"
    /\ pc' = IF nb = "train" THEN "train" ELSE "from_config"
    /\ UNCHANGED << nb, data, splits, seeds, z, i, calls, train_summary, remote, direct >>

\* ------------------------------------------------------- training notebook
\* train_summary = loss.train((X,y), parameter_learners=[learner],
\*     callbacks=[progress_writer], minibatch_size=16, max_epochs=5)
LossTrain ==
    /\ nb = "train" /\ pc = "train"
    /\ calls' = Append(calls, Call("loss.train", "", TRUE, X.dtype, y.dtype))
    /\ i' = 0
    /\ pc' = "epoch"
    /\ UNCHANGED << nb, data, splits, seeds, z, train_summary, remote, direct >>

\* one sweep of loss.train over the data; it returns after max_epochs sweeps
Epoch ==
    /\ nb = "train" /\ pc = "epoch"
    /\ i < MaxEpochs
    /\ i' = i + 1
    /\ z' = [z EXCEPT !.trained = @ + 1]
    /\ pc' = "epoch"
    /\ UNCHANGED << nb, data, splits, seeds, calls, train_summary, remote, direct >>

LossTrainReturn ==
    /\ nb = "train" /\ pc = "epoch"
    /\ i >= MaxEpochs
    /\ train_summary' = [minibatch_size |-> MinibatchSize, epochs |-> i]
    /\ pc' = "done"
    /\ UNCHANGED << nb, data, splits, seeds, z, i, calls, remote, direct >>

\* ---------------------------------------------------------- Azure notebook
\* ws = Workspace.from_config(); experiment = Experiment(name=..., workspace=ws)
\* from_config raises when there is no config.json
FromConfig ==
    /\ nb = "azure" /\ pc = "from_config"
    /\ \E present \in BOOLEAN :
          /\ calls' = Append(calls, Call("from_config", "config.json", present, "none", "none"))
          /\ pc' = AfterCall(present, "start_logging")
    /\ UNCHANGED << nb, data, splits, seeds, z, i, train_summary, remote, direct >>

\* os.makedirs('outputs', exist_ok=True); with experiment.start_logging() as run:
StartLogging ==
    /\ nb = "azure" /\ pc = "start_logging"
    /\ calls' = Append(calls, Call("start_logging", "", TRUE, "none", "none"))
    /\ i' = 0
    /\ pc' = LoopNext(0)
    /\ UNCHANGED << nb, data, splits, seeds, z, train_summary, remote, direct >>

\* for _ in range(10): trainer.train_minibatch({ features: X_train, label: y_train })
TrainMinibatch ==
    /\ nb = "azure" /\ pc = "train_minibatch"
    /\ z' = [z EXCEPT !.trained = @ + 1]
    /\ calls' = Append(calls, Call("train_minibatch", "", TRUE, X_train.dtype, y_train.dtype))
    /\ pc' = "log_loss"
    /\ UNCHANGED << nb, data, splits, seeds, i, train_summary, remote, direct >>

\* run.log('average_loss', trainer.previous_minibatch_loss_average)
LogLoss ==
    /\ nb = "azure" /\ pc = "log_loss"
    /\ \E ok \in BOOLEAN :
          /\ calls' = Append(calls, Call("log", "average_loss", ok, "none", "none"))
          /\ pc' = AfterCall(ok, "log_metric")
    /\ UNCHANGED << nb, data, splits, seeds, z, i, train_summary, remote, direct >>

\* run.log('average_metric', ...), then the next round of the loop or the loop's end
LogMetric ==
    /\ nb = "azure" /\ pc = "log_metric"
    /\ \E ok \in BOOLEAN :
          /\ calls' = Append(calls, Call("log", "average_metric", ok, "none", "none"))
          /\ pc' = AfterCall(ok, LoopNext(i + 1))
    /\ i' = i + 1
    /\ UNCHANGED << nb, data, splits, seeds, z, train_summary, remote, direct >>

\* test_metric = trainer.test_minibatch( {features: X_test, label: y_test })
TestMinibatch ==
    /\ nb = "azure" /\ pc = "test_minibatch"
    /\ calls' = Append(calls, Call("test_minibatch", "", TRUE, X_test.dtype, y_test.dtype))
    /\ pc' = "log_test"
    /\ UNCHANGED << nb, data, splits, seeds, z, i, train_summary, remote, direct >>

\* run.log('test_metric', test_metric)
LogTest ==
    /\ nb = "azure" /\ pc = "log_test"
    /\ \E ok \in BOOLEAN :
          /\ calls' = Append(calls, Call("log", "test_metric", ok, "none", "none"))
          /\ pc' = AfterCall(ok, "save")
    /\ UNCHANGED << nb, data, splits, seeds, z, i, train_summary, remote, direct >>

\* z.save placed ahead of the test evaluation
SaveModelBeforeTest ==
    /\ nb = "azure" /\ pc = "test_minibatch"
    /\ local_files' = Store(local_files, "outputs/model.onnx", z.trained)
    /\ calls' = Append(calls, Call("save", "outputs/model.onnx", TRUE, "none", "none"))
    /\ pc' = "upload_file"
    /\ UNCHANGED << nb, data, splits, seeds, z, i, train_summary, uploaded,
                    stored_model, service, direct >>

\* z.save('outputs/model.onnx', ModelFormat.ONNX)
SaveModel ==
    /\ nb = "azure" /\ pc = "save"
    /\ local_files' = Store(local_files, "outputs/model.onnx", z.trained)
    /\ calls' = Append(calls, Call("save", "outputs/model.onnx", TRUE, "none", "none"))
    /\ pc' = "upload_file"
    /\ UNCHANGED << nb, data, splits, seeds, z, i, train_summary, uploaded,
                    stored_model, service, direct >>

\* run.upload_file('model.onnx', 'outputs/model.onnx')
UploadFile ==
    /\ nb = "azure" /\ pc = "upload_file"
    /\ \E ok \in BOOLEAN :
          /\ uploaded' = IF ok
                         THEN Store(uploaded, "model.onnx", Content(local_files, "outputs/model.onnx"))
                         ELSE uploaded
          /\ calls' = Append(calls, Call("upload_file", "model.onnx", ok, "none", "none"))
          /\ pc' = AfterCall(ok, "register_model")
    /\ UNCHANGED << nb, data, splits, seeds, z, i, train_summary, local_files,
                    stored_model, service, direct >>

\* stored_model = run.register_model(model_name='classify_flowers', model_path='model.onnx')
RegisterModel ==
    /\ nb = "azure" /\ pc = "register_model"
    /\ \E ok \in BOOLEAN :
          /\ stored_model' = IF ok
                             THEN [name |-> "classify_flowers", path |-> "model.onnx",
                                   trained |-> Content(uploaded, "model.onnx")]
                             ELSE stored_model
          /\ calls' = Append(calls, Call("register_model", "classify_flowers", ok, "none", "none"))
          /\ pc' = AfterCall(ok, "image_config")
    /\ UNCHANGED << nb, data, splits, seeds, z, i, train_summary, local_files,
                    uploaded, service, direct >>

\* image_config = ContainerImage.image_configuration(...)
ImageConfig ==
    /\ nb = "azure" /\ pc = "image_config"
    /\ pc' = "deploy"
    /\ UNCHANGED << nb, data, splits, seeds, z, i, calls, train_summary, remote, direct >>

\* service = Webservice.deploy_from_model(workspace=ws, name='classify-flowers-svc',
\*     deployment_config=aciconfig, models=[stored_model], image_config=image_config)
Deploy ==
    /\ nb = "azure" /\ pc = "deploy"
    /\ \E ok \in BOOLEAN :
          /\ service' = IF ok
                        THEN [name |-> "classify-flowers-svc", models |-> <<stored_model>>]
                        ELSE service
          /\ calls' = Append(calls, Call("deploy_from_model", "classify-flowers-svc", ok, "none", "none"))
          /\ pc' = AfterCall(ok, "done")
    /\ UNCHANGED << nb, data, splits, seeds, z, i, train_summary, local_files,
                    uploaded, stored_model, direct >>

Next ==
    \/ SeedCell \/ BuildModel \/ DefOneHot \/ ReadCsv \/ DefineLabelMapping
    \/ Extract \/ Encode \/ AsType \/ Split \/ DefineLoss
    \/ LossTrain \/ Epoch \/ LossTrainReturn
    \/ FromConfig \/ StartLogging \/ TrainMinibatch \/ LogLoss \/ LogMetric
    \/ TestMinibatch \/ LogTest \/ SaveModel \/ UploadFile \/ RegisterModel
    \/ ImageConfig \/ Deploy

Spec == Init /\ [][Next]_vars

\* ------------------------------------------- one_hot called on its own
InitOneHot ==
    /\ nb = "train"
    /\ pc = "call_one_hot"
    /\ iris_csv = <<>>
    /\ oh_length \in 0..MaxLen
    /\ oh_index \in (-MaxLen)..MaxLen
    /\ Blank

\* result = one_hot(index, length); an IndexError ends the run
CallOneHot ==
    /\ pc = "call_one_hot"
    /\ oh_result' = one_hot(oh_index, oh_length)
    /\ pc' = AfterCall(~oh_result'.raised, "returned")
    /\ UNCHANGED << nb, data, splits, seeds, z, i, calls, train_summary, remote,
                    oh_index, oh_length >>

SpecOneHot == InitOneHot /\ [][CallOneHot]_vars

\* ================================================================ properties
Count(op) == Cardinality({ j \in 1..Len(calls) : calls[j].op = op })
CountLog(name) == Cardinality({ j \in 1..Len(calls) : calls[j].op = "log" /\ calls[j].name = name })
Before(op, j) == Cardinality({ k \in 1..(j - 1) : calls[k].op = op })
EncodeDone == \E j \in 1..Len(calls) : calls[j].op = "encode" /\ calls[j].ok
BeforeMapping == {"seed", "model", "def_one_hot", "read_csv", "label_mapping"}
                    \cup (IF nb = "azure" THEN {"extract"} ELSE {})

\* C1: once the statement defining label_mapping has run, in either notebook,
\* label_mapping has exactly the three known species as keys, maps them to
\* 0, 1 and 2, and stays that way in every later state of the run.
C1_MappingTotalAndFixed ==
    pc \notin BeforeMapping =>
        /\ DOMAIN label_mapping = {"Iris-setosa", "Iris-versicolor", "Iris-virginica"}
        /\ label_mapping["Iris-setosa"] = 0
        /\ label_mapping["Iris-versicolor"] = 1
        /\ label_mapping["Iris-virginica"] = 2

C1_Witness ==
    /\ nb = "azure" /\ pc = "done"
    /\ DOMAIN label_mapping = KnownSpecies

\* C2: for length n >= 1 and 0 <= index < n, one_hot(index, n) returns without
\* raising a vector over positions 0..n-1 holding 1 at index and 0 elsewhere.
C2_OneHotIndicator ==
    (pc # "call_one_hot" /\ oh_length >= 1 /\ 0 <= oh_index /\ oh_index < oh_length) =>
        /\ pc = "returned"
        /\ ~oh_result.raised
        /\ DOMAIN oh_result.result = 0..(oh_length - 1)
        /\ \A k \in 0..(oh_length - 1) :
              oh_result.result[k] = IF k = oh_index THEN 1 ELSE 0

C2_Witness ==
    /\ pc = "returned" /\ oh_length = 4 /\ oh_index = 2
    /\ oh_result.result[2] = 1

\* C3: after label encoding has completed, every encoded label has exactly the
\* positions 0, 1, 2, exactly one of them holds 1 and the others 0, and the 1
\* is at the index label_mapping gives the row's species.
C3_EncodedLabelsOneHot ==
    EncodeDone =>
        \A k \in 1..Len(y.rows) :
            /\ DOMAIN y.rows[k] = 0..2
            /\ Cardinality({ p \in 0..2 : y.rows[k][p] = 1 }) = 1
            /\ \A p \in 0..2 : y.rows[k][p] \in {0, 1}
            /\ y.rows[k][label_mapping[df_source[k].species]] = 1

C3_Witness ==
    /\ EncodeDone /\ Len(y.rows) = 2
    /\ y.rows[1][2] = 1 /\ y.rows[2][0] = 1

\* C5: every train_minibatch, test_minibatch and loss.train call receives
\* features and labels that were converted to float32.
C5_ConvertedBeforeTraining ==
    \A j \in 1..Len(calls) :
        calls[j].op \in {"train_minibatch", "test_minibatch", "loss.train"} =>
            calls[j].xd = "float32" /\ calls[j].yd = "float32"

\* C6: a failed step is the last thing a run does: the run is in "failed"
\* exactly when its last step failed, no step (a retry included) follows a
\* failed one, nothing can run from "failed", and nothing was deployed.
C6_FailureStopsRun ==
    /\ \A j \in 1..Len(calls) : ~calls[j].ok => j = Len(calls)
    /\ (pc = "failed") <=> (calls # <<>> /\ ~calls[Len(calls)].ok)
    /\ pc = "failed" =>
          /\ ~ENABLED Next
          /\ service.models = <<>>
          /\ calls[Len(calls)].op \in {"encode", "from_config"} =>
                z.trained = 0 /\ local_files = {} /\ uploaded = {}
          /\ calls[Len(calls)].op \in {"encode", "from_config", "log", "upload_file", "register_model"}
                => stored_model = NoModel

C6_Witness ==
    /\ pc = "failed"
    /\ calls[Len(calls)].op = "upload_file"
    /\ local_files # {} /\ uploaded = {}

\* C7: the model is saved at most once and only after the 10 training steps
\* and the test evaluation, uploaded at most once and only after the save,
\* registered as classify_flowers at most once and only after a successful
\* upload, deployed only after a successful registration and with exactly the
\* registered model; a completed run did each exactly once, and what is
\* registered is what training produced.
C7_ArtifactOrder ==
    /\ Count("save") <= 1 /\ Count("upload_file") <= 1
    /\ Count("register_model") <= 1 /\ Count("deploy_from_model") <= 1
    /\ \A j \in 1..Len(calls) :
          /\ calls[j].op = "save" =>
                /\ Before("train_minibatch", j) = 10
                /\ Before("test_minibatch", j) = 1
                /\ Before("train_minibatch", Len(calls) + 1) = 10
                /\ Before("test_minibatch", Len(calls) + 1) = 1
                /\ calls[j].name = "outputs/model.onnx"
          /\ calls[j].op = "upload_file" => Before("save", j) = 1
          /\ calls[j].op = "register_model" =>
                \E k \in 1..(j - 1) : calls[k].op = "upload_file" /\ calls[k].ok
          /\ calls[j].op = "deploy_from_model" =>
                \E k \in 1..(j - 1) : calls[k].op = "register_model" /\ calls[k].ok
    /\ \A f \in local_files \cup uploaded : f.trained = 10
    /\ stored_model # NoModel =>
          stored_model = [name |-> "classify_flowers", path |-> "model.onnx", trained |-> 10]
    /\ service.models # <<>> =>
          service.models = <<stored_model>> /\ stored_model # NoModel
    /\ (nb = "azure" /\ pc = "done") =>
          /\ Count("save") = 1 /\ Count("upload_file") = 1
          /\ Count("register_model") = 1 /\ Count("deploy_from_model") = 1
          /\ service.models = <<stored_model>>

C7_Witness ==
    /\ nb = "azure" /\ pc = "done"
    /\ service.models = <<[name |-> "classify_flowers", path |-> "model.onnx", trained |-> 10]>>

\* C8: after the seed cell of the training notebook, both the training
\* library's and numpy's random generators are seeded with 1337.
C8_AllRandomnessSeeded ==
    (nb = "train" /\ pc # "seed") =>
        /\ cntk_seed = 1337
        /\ numpy_rng = [seeded |-> TRUE, seed |-> 1337]

\* C9: the Azure notebook runs at most 10 train_minibatch steps, each one
\* directly followed by one log of average_loss and then one of
\* average_metric before the next step; test_minibatch runs at most once and
\* only after the 10th step, test_metric is logged right after it and before
\* the save; once the model is saved there were exactly 10 steps, 20 such log
\* entries, one test and one test_metric.  In the training notebook loss.train
\* is called once and returns after exactly 5 epochs with minibatch_size 16.
C9_FixedNumberOfSteps ==
    /\ Count("train_minibatch") <= 10
    /\ Count("test_minibatch") <= 1 /\ CountLog("test_metric") <= 1
    /\ \A j \in 1..Len(calls) :
          /\ calls[j].op = "train_minibatch" =>
                /\ j + 1 <= Len(calls) =>
                      calls[j + 1].op = "log" /\ calls[j + 1].name = "average_loss"
                /\ j + 2 <= Len(calls) =>
                      calls[j + 2].op = "log" /\ calls[j + 2].name = "average_metric"
                /\ j + 3 <= Len(calls) =>
                      calls[j + 3].op \in {"train_minibatch", "test_minibatch"}
          /\ (calls[j].op = "log" /\ calls[j].name = "average_loss") =>
                calls[j - 1].op = "train_minibatch"
          /\ (calls[j].op = "log" /\ calls[j].name = "average_metric") =>
                calls[j - 1].op = "log" /\ calls[j - 1].name = "average_loss"
          /\ calls[j].op = "test_minibatch" => Before("train_minibatch", j) = 10
          /\ (calls[j].op = "log" /\ calls[j].name = "test_metric") =>
                calls[j - 1].op = "test_minibatch"
          /\ calls[j].op = "save" =>
                /\ calls[j - 1].op = "log" /\ calls[j - 1].name = "test_metric"
                /\ Count("train_minibatch") = 10
                /\ CountLog("average_loss") + CountLog("average_metric") = 20
                /\ Count("test_minibatch") = 1 /\ CountLog("test_metric") = 1
    /\ nb = "azure" => z.trained = Count("train_minibatch")
    /\ nb = "train" =>
          /\ Count("loss.train") <= 1
          /\ z.trained <= 5
          /\ pc = "done" =>
                /\ Count("loss.train") = 1
                /\ z.trained = 5
                /\ train_summary = [minibatch_size |-> 16, epochs |-> 5]

C9_Witness ==
    /\ nb = "azure" /\ pc = "upload_file"
    /\ Count("train_minibatch") = 10 /\ CountLog("average_metric") = 10

\* C10: the label-encoding statement leaves X as it was, and when it completes
\* there are as many encoded labels as table rows, the k-th being the encoding
\* of the k-th row's species, next to the k-th row's four features in X.
C10_EncodingKeepsRowsAligned ==
    [][ pc = "encode" =>
          /\ X' = X
          /\ pc' # "failed" =>
                /\ Len(y'.rows) = Len(df_source)
                /\ Len(X'.rows) = Len(df_source)
                /\ \A k \in 1..Len(df_source) :
                      /\ X'.rows[k] = df_source[k].features
                      /\ y'.rows[k] =
                            [p \in 0..2 |->
                                IF p = label_mapping[df_source[k].species] THEN 1 ELSE 0]
      ]_vars

C10_Witness ==
    /\ EncodeDone /\ Len(X.rows) = 2
    /\ X.rows[1] # X.rows[2]
    /\ y.rows[1] # y.rows[2]

====
